---- MODULE Spec2Model ----
(***************************************************************************)
(* Model of sentry.tsdb.snuba.SnubaTSDB (src/src/sentry/tsdb/snuba.py).    *)
(*                                                                         *)
(* Python values whose type the code dispatches on are tagged tuples:      *)
(*   <<"None">>, <<"int", n>>, <<"list", s>>, <<"dict", f>>, <<"tuple", t>> *)
(* A column that is None in the registry is the string "None" (no backend  *)
(* column has that name).  The result of a call is <<"return", v>> or      *)
(* <<"raise", exception>>.  A list that Python builds by iterating a set   *)
(* or a dict has an unspecified order: every order is a possible outcome.  *)
(* start, end and rollup are copied verbatim into from_date, to_date and   *)
(* granularity and take no part in any decision; they are left out.        *)
(***************************************************************************)
EXTENDS Integers, Sequences, FiniteSets, TLC

VARIABLES pc, call, request, response, outcome

vars == <<pc, call, request, response, outcome>>

----------------------------------------------------------------------------
(* Bounds and input domains *)

MaxRows == 2
MaxKeys == 2

ProjectIds == {1, 2}
IssueIds == {101, 102}
UserIds == {101, 102}
Releases == {"1.0", "2.0"}
EnvNames == {"production", "staging"}
TimeStrings == {"2024-01-01T00:00:00Z", "2024-01-01T01:00:00Z"}

----------------------------------------------------------------------------
(* Python values *)

None == "None"
PyNone == <<"None">>
PyInt(n) == <<"int", n>>
PyList(s) == <<"list", s>>
PyDict(f) == <<"dict", f>>
PyTuple(t) == <<"tuple", t>>
IsNone(v) == v[1] = "None"
IsDict(v) == v[1] = "dict"
IsList(v) == v[1] = "list"

Return(v) == <<"return", v>>
Raise(e) == <<"raise", e>>
Post(req) == <<"post", req>>

Range(s) == {s[i] : i \in DOMAIN s}

\* every list holding exactly the elements of S, each once
ListOfSet(S) == {s \in [1..Cardinality(S) -> S] : Range(s) = S}

Min(S) == CHOOSE x \in S : \A y \in S : x <= y

RECURSIVE SortedSeq(_)
SortedSeq(S) == IF S = {} THEN <<>> ELSE <<Min(S)>> \o SortedSeq(S \ {Min(S)})

Reverse(s) == [i \in 1..Len(s) |-> s[Len(s) + 1 - i]]

----------------------------------------------------------------------------
(* Model registry *)

SupportedModels ==
    {"project", "group", "release", "users_affected_by_group",
     "users_affected_by_project", "frequent_environments_by_group",
     "frequent_releases_by_group", "frequent_issues_by_project"}

UnsupportedModels == {"internal", "organization_total_received"}

Models == SupportedModels \cup UnsupportedModels

model_columns(model) ==
    CASE model = "project" -> PyTuple(<<"project_id", None>>)
      [] model = "group" -> PyTuple(<<"issue", None>>)
      [] model = "release" -> PyTuple(<<"release", None>>)
      [] model = "users_affected_by_group" -> PyTuple(<<"issue", "user_id">>)
      [] model = "users_affected_by_project" -> PyTuple(<<"project_id", "user_id">>)
      [] model = "frequent_environments_by_group" -> PyTuple(<<"issue", "environment">>)
      [] model = "frequent_releases_by_group" -> PyTuple(<<"issue", "release">>)
      [] model = "frequent_issues_by_project" -> PyTuple(<<"project_id", "issue">>)
      [] OTHER -> PyNone

----------------------------------------------------------------------------
(* Key normalizer: the set of outcomes normalize_keys(items) can have *)

normalize_keys(items) ==
    IF IsList(items)
    THEN {Return(<<PyList(items[2]), PyNone>>)}
    ELSE IF IsDict(items)
    THEN IF DOMAIN items[2] = {}
         THEN {Raise("TypeError")}
         ELSE {Return(<<PyList(k), PyList(s)>>) :
                 k \in ListOfSet(DOMAIN items[2]),
                 s \in ListOfSet(UNION {Range(items[2][x]) : x \in DOMAIN items[2]})}
    ELSE {Return(<<PyNone, PyNone>>)}

----------------------------------------------------------------------------
(* External collaborators: the Environment and GroupHash tables *)

Environments == {<<7, "production">>, <<8, "staging">>}

GroupHashes == << <<1, 101, "h1">>, <<1, 101, "h2">>, <<2, 102, "h3">> >>

\* Environment.objects.get(pk=environment_id).name
get_environment_name(environment_id) ==
    IF \E e \in Environments : e[1] = environment_id
    THEN Return((CHOOSE e \in Environments : e[1] = environment_id)[2])
    ELSE Raise("DoesNotExist")

\* the possible values of list(result.items())
get_project_issues(project_ids) ==
    LET hashes == SelectSeq(GroupHashes, LAMBDA h : h[1] \in Range(project_ids))
        gids == {hashes[i][2] : i \in DOMAIN hashes}
        of(gid) == SelectSeq(hashes, LAMBDA h : h[2] = gid)
        item(gid) == <<gid, [i \in 1..Len(of(gid)) |-> of(gid)[i][3]]>>
    IN  {PyList([i \in DOMAIN o |-> item(o[i])]) : o \in ListOfSet(gids)}

get_project_ids(model, model_ids) ==
    IF model = "project_id" THEN model_ids ELSE PyList(<<>>)

----------------------------------------------------------------------------
(* Query builder: get_data up to the request it posts *)

\* truthiness of a value that is None or a list
Truthy(v) == IsList(v) /\ Len(v[2]) > 0

\* set.intersection(*sets); with no argument Python raises TypeError
Intersection(sets) ==
    {x \in UNION sets : \A s \in sets : x \in s}

\* mutant: the key conditions are built with the equality operator
conditions_of_equality(keys_map, order) ==
    LET kept == SelectSeq(order, LAMBDA c : c # None /\ ~IsNone(keys_map[c]))
    IN  [i \in 1..Len(kept) |-> <<kept[i], "=", keys_map[kept[i]][2]>>]

conditions_of(keys_map, order) ==
    LET kept == SelectSeq(order, LAMBDA c : c # None /\ ~IsNone(keys_map[c]))
    IN  [i \in 1..Len(kept) |-> <<kept[i], "IN", keys_map[kept[i]][2]>>]

groupby_of(model_group, model_aggregate, aggregation, group_on_model, group_on_time) ==
    (IF group_on_model /\ model_group # None THEN <<model_group>> ELSE <<>>)
    \o (IF group_on_time THEN <<"time">> ELSE <<>>)
    \o (IF aggregation = "count" /\ model_aggregate # None
        THEN <<model_aggregate>> ELSE <<>>)

\* mutant: the aggregate column is not cleared after the count rewrite
aggregateby_of_kept(model_aggregate, aggregation) == model_aggregate

aggregateby_of(model_aggregate, aggregation) ==
    IF aggregation = "count" /\ model_aggregate # None THEN None ELSE model_aggregate

\* mutant: the environment filter is never added
environment_conditions_dropped(environment_id, name) == <<>>

environment_conditions(environment_id, name) ==
    IF ~IsNone(environment_id) THEN << <<"environment", "=", name>> >> ELSE <<>>

\* the dict comprehension that drops the fields whose value is None
make_request(conditions, groupby, project_ids, aggregation, aggregateby, issues) ==
    LET entries == [conditions |-> conditions, groupby |-> groupby,
                    project |-> project_ids, aggregation |-> aggregation,
                    aggregateby |-> aggregateby, issues |-> issues]
        absent == (IF aggregateby = None THEN {"aggregateby"} ELSE {})
                  \cup (IF IsNone(issues) THEN {"issues"} ELSE {})
    IN  [k \in (DOMAIN entries) \ absent |-> entries[k]]

\* lines 68-111 for one outcome nk of normalize_keys and one iteration order
\* of keys_map
build_request(model_group, model_aggregate, nk, order, environment_id, aggregation, group_on_model, group_on_time) ==
    LET keys_map == [c \in {model_group, model_aggregate} |->
                        IF c = model_aggregate THEN nk[2] ELSE nk[1]]
        groupby == groupby_of(model_group, model_aggregate, aggregation,
                              group_on_model, group_on_time)
        aggregateby == aggregateby_of(model_aggregate, aggregation)
        env == IF IsNone(environment_id) THEN Return("")
               ELSE get_environment_name(environment_id[2])
        conditions == conditions_of(keys_map, order)
                      \o environment_conditions(environment_id, env[2])
        implied == {get_project_ids(k, keys_map[k]) : k \in DOMAIN keys_map}
        sets == {Range(ids[2]) : ids \in {i \in implied : Truthy(i)}}
        references_issues ==
            "issue" \in Range(groupby) \cup {aggregateby}
                        \cup {conditions[i][1] : i \in DOMAIN conditions}
    IN  IF env[1] = "raise" THEN {env}
        ELSE IF sets = {} THEN {Raise("TypeError")}
        ELSE UNION {
               {Post(make_request(conditions, groupby, PyList(project_ids),
                                  aggregation, aggregateby, issues)) :
                  issues \in (IF references_issues
                              THEN get_project_issues(project_ids)
                              ELSE {PyNone})} :
               project_ids \in ListOfSet(Intersection(sets))}

\* get_data, lines 59-111: the outcomes up to and including the request
get_data_request(model, keys, environment_id, aggregation, group_on_model, group_on_time) ==
    LET mc == model_columns(model)
    IN  IF IsNone(mc) THEN {Return(PyNone)}
        ELSE UNION {
               IF nk[1] = "raise" THEN {nk}
               ELSE UNION {build_request(mc[2][1], mc[2][2], nk[2], order,
                                         environment_id, aggregation,
                                         group_on_model, group_on_time) :
                             order \in ListOfSet({mc[2][1], mc[2][2]})} :
               nk \in normalize_keys(keys)}

----------------------------------------------------------------------------
(* Response validator and scrubber, nesting engine: get_data after the post *)

\* int(to_timestamp(parse_datetime(s)))
parse_timestamp(s) ==
    CASE s = "2024-01-01T00:00:00Z" -> 1704067200
      [] s = "2024-01-01T01:00:00Z" -> 1704070800

expected_cols(groupby) == groupby \o <<"aggregate">>

\* mutant: any() in place of all()
valid_meta_any(meta, groupby) ==
    \E i \in DOMAIN meta : meta[i] \in Range(expected_cols(groupby))

valid_meta(meta, groupby) ==
    \A i \in DOMAIN meta : meta[i] \in Range(expected_cols(groupby))

scrub(d) ==
    [k \in DOMAIN d |->
        IF k = "time" THEN parse_timestamp(d[k])
        ELSE IF k = "aggregate" /\ IsNone(d[k]) THEN PyInt(0)
        ELSE d[k]]

\* mutant: inter[d[g]] = [d], each row replacing the rows grouped before it
RECURSIVE group_rows_overwrite(_, _, _, _)
group_rows_overwrite(data, g, i, inter) ==
    IF i > Len(data) THEN inter
    ELSE LET d == data[i]
             k == d[g]
         IN  group_rows_overwrite(data, g, i + 1,
                                  IF k \in DOMAIN inter
                                  THEN [inter EXCEPT ![k] = <<d>>]
                                  ELSE inter @@ (k :> <<d>>))

\* inter.setdefault(d[g], []).append(d) for d in data[i..]
RECURSIVE group_rows(_, _, _, _)
group_rows(data, g, i, inter) ==
    IF i > Len(data) THEN inter
    ELSE LET d == data[i]
             k == d[g]
         IN  group_rows(data, g, i + 1,
                        IF k \in DOMAIN inter
                        THEN [inter EXCEPT ![k] = Append(@, d)]
                        ELSE inter @@ (k :> <<d>>))

RECURSIVE nest_groups(_, _)
nest_groups(data, groups) ==
    IF groups = <<>>
    THEN IF data # <<>> THEN data[1]["aggregate"] ELSE PyNone
    ELSE LET g == Head(groups)
             rest == Tail(groups)
             inter == group_rows(data, g, 1, <<>>)
         IN  PyDict([k \in DOMAIN inter |-> nest_groups(inter[k], rest)])

\* get_data, lines 115-126
get_data_response(groupby, resp) ==
    IF ~valid_meta(resp.meta, groupby) THEN Raise("AssertionError")
    ELSE Return(nest_groups([i \in DOMAIN resp.data |-> scrub(resp.data[i])],
                            groupby))

----------------------------------------------------------------------------
(* Operation adapters: what each does with the value get_data returned *)

\* mutant: the items are sorted in descending order
sorted_items_descending(d) ==
    LET ks == Reverse(SortedSeq(DOMAIN d[2]))
    IN  [i \in DOMAIN ks |-> <<ks[i], d[2][ks[i]]>>]

\* sorted(d.items()) for a dict with integer keys
sorted_items(d) ==
    LET ks == SortedSeq(DOMAIN d[2])
    IN  [i \in DOMAIN ks |-> <<ks[i], d[2][ks[i]]>>]

\* the possible values of d.items()
items(d) ==
    {[i \in DOMAIN ks |-> <<ks[i], d[2][ks[i]]>>] : ks \in ListOfSet(DOMAIN d[2])}

\* `for k in result` and `result[k].items()` need dicts
IsDictOfDicts(result) ==
    IsDict(result) /\ \A k \in DOMAIN result[2] : IsDict(result[2][k])

get_range_reshape(result) ==
    IF ~IsDict(result) THEN {Raise("TypeError")}
    ELSE IF ~IsDictOfDicts(result) THEN {Raise("AttributeError")}
    ELSE {Return(PyDict([k \in DOMAIN result[2] |->
                            PyList(sorted_items(result[2][k]))]))}

get_distinct_counts_series_reshape(result) ==
    IF ~IsDict(result) THEN {Raise("TypeError")}
    ELSE IF ~IsDictOfDicts(result) THEN {Raise("AttributeError")}
    ELSE {Return(PyDict([k \in DOMAIN result[2] |->
                            PyList(sorted_items(result[2][k]))]))}

\* mutant: the scored list is not reversed back
item_scores_unreversed(topk) ==
    LET r == Reverse(topk)
    IN  [i \in 1..Len(r) |-> <<r[i], i>>]

\* [(v, float(i + 1)) for i, v in enumerate(reversed(topk))], reversed
item_scores(topk) ==
    LET r == Reverse(topk)
        scored == [i \in 1..Len(r) |-> <<r[i], i>>]
    IN  Reverse(scored)

get_most_frequent_reshape(result) ==
    IF ~IsDict(result) THEN {Raise("TypeError")}
    ELSE IF \E k \in DOMAIN result[2] : ~IsList(result[2][k])
    THEN {Raise("TypeError")}
    ELSE {Return(PyDict([k \in DOMAIN result[2] |->
                            PyList(item_scores(result[2][k][2]))]))}

\* {v: float(i + 1) for i, v in enumerate(reversed(topk))}
score_map(topk) ==
    LET r == Reverse(topk)
    IN  PyDict([v \in Range(r) |->
                  CHOOSE i \in DOMAIN r :
                      r[i] = v /\ \A j \in DOMAIN r : r[j] = v => j <= i])

get_most_frequent_series_reshape(result) ==
    IF ~IsDict(result) THEN {Raise("TypeError")}
    ELSE IF ~IsDictOfDicts(result) THEN {Raise("AttributeError")}
    ELSE IF \E k \in DOMAIN result[2] :
               \E t \in DOMAIN result[2][k][2] : ~IsList(result[2][k][2][t])
    THEN {Raise("TypeError")}
    ELSE {Return(PyDict([k \in DOMAIN result[2] |->
            LET it == sorted_items(result[2][k])
            IN  PyList([i \in DOMAIN it |->
                          <<it[i][1], score_map(it[i][2][2])>>])]))}

get_frequency_series_reshape(result) ==
    IF ~IsDict(result) THEN {Raise("TypeError")}
    ELSE IF ~IsDictOfDicts(result) THEN {Raise("AttributeError")}
    ELSE {Return(PyDict(f)) :
            f \in {h \in [DOMAIN result[2] ->
                            {PyList(l) : l \in UNION {items(result[2][k]) :
                                                       k \in DOMAIN result[2]}}] :
                     \A k \in DOMAIN result[2] :
                        h[k][2] \in items(result[2][k])}}

reshape(op, result) ==
    CASE op = "get_range" -> get_range_reshape(result)
      [] op = "get_distinct_counts_series" ->
            get_distinct_counts_series_reshape(result)
      [] op = "get_most_frequent" -> get_most_frequent_reshape(result)
      [] op = "get_most_frequent_series" ->
            get_most_frequent_series_reshape(result)
      [] op = "get_frequency_series" -> get_frequency_series_reshape(result)
      [] OTHER -> {Return(result)}

\* the outcomes of an operation whose get_data call ended with gd
complete(op, gd) ==
    IF gd[1] = "raise" THEN {gd} ELSE reshape(op, gd[2])

----------------------------------------------------------------------------
(* Inputs: what callers pass and what the backend answers *)

KeyInputs ==
    {PyList(<<>>), PyList(<<1>>), PyList(<<2, 1>>), PyList(<<101, 102>>),
     PyDict(<<>>), PyDict(1 :> <<101>>),
     PyNone}

EnvironmentIds == {PyNone, PyInt(7), PyInt(9)}

Limits == {1, 2}

TopKValues == {"a", "b"}

column_values(c) ==
    CASE c = "project_id" -> ProjectIds
      [] c = "issue" -> IssueIds
      [] c = "user_id" -> UserIds
      [] c = "release" -> Releases
      [] c = "environment" -> EnvNames
      [] c = "time" -> TimeStrings

\* the lists of at most n distinct elements of S
RECURSIVE ranked(_, _)
ranked(S, n) ==
    IF n = 0 THEN {<<>>}
    ELSE {<<>>} \cup UNION {{<<x>> \o t : t \in ranked(S \ {x}, n - 1)} : x \in S}

aggregate_values(aggregation, limit) ==
    IF aggregation \in {"count", "uniq"} THEN {PyNone, PyInt(5)}
    ELSE {PyNone} \cup {PyList(l) : l \in ranked(TopKValues, limit)}

\* the backend answers with rows that satisfy the request's IN conditions
allowed_values(req, c) ==
    {v \in column_values(c) :
        \A i \in DOMAIN req.conditions :
            IF req.conditions[i][1] = c /\ req.conditions[i][2] = "IN"
            THEN v \in Range(req.conditions[i][3]) ELSE TRUE}

\* the rows a response to the request can hold: a value for every group-by
\* column and an aggregate
RECURSIVE rows_over(_, _, _)
rows_over(req, cols, limit) ==
    IF cols = <<>>
    THEN {("aggregate" :> a) : a \in aggregate_values(req.aggregation, limit)}
    ELSE {(Head(cols) :> v) @@ r :
            v \in allowed_values(req, Head(cols)),
            r \in rows_over(req, Tail(cols), limit)}

RECURSIVE seqs_upto(_, _)
seqs_upto(S, n) ==
    IF n = 0 THEN {<<>>}
    ELSE {<<>>} \cup {<<x>> \o t : x \in S, t \in seqs_upto(S, n - 1)}

metas(groupby) ==
    {expected_cols(groupby), <<"aggregate", "time">>,
     expected_cols(groupby) \o <<"offset">>}

responses(req, limit) ==
    [meta : metas(req.groupby),
     data : seqs_upto(rows_over(req, req.groupby, limit), MaxRows)]

----------------------------------------------------------------------------
(* The operations *)

Init ==
    /\ pc = "idle"
    /\ call = PyNone
    /\ request = PyNone
    /\ response = PyNone
    /\ outcome = PyNone

\* a public operation up to the point where get_data posts its request, or
\* to its end when get_data returns or raises before that
Invoke(op, model, keys, environment_id, limit, aggregation, group_on_model, group_on_time) ==
    /\ pc = "idle"
    /\ call' = [op |-> op, model |-> model, keys |-> keys,
                environment_id |-> environment_id, limit |-> limit]
    /\ response' = PyNone
    /\ \E gd \in get_data_request(model, keys, environment_id, aggregation,
                                  group_on_model, group_on_time) :
          IF gd[1] = "post"
          THEN /\ pc' = "waiting"
               /\ request' = PyDict(gd[2])
               /\ outcome' = PyNone
          ELSE /\ pc' = "done"
               /\ request' = PyNone
               /\ outcome' \in complete(op, gd)

DefaultLimit == 10

topK(limit) == "topK(" \o ToString(limit) \o ")"

get_range(model, keys, environment_id) ==
    /\ pc = "idle"
    /\ Invoke("get_range", model, keys, environment_id, DefaultLimit,
           "count", TRUE, TRUE)

get_distinct_counts_series(model, keys, environment_id) ==
    /\ pc = "idle"
    /\ Invoke("get_distinct_counts_series", model, keys, environment_id,
           DefaultLimit, "uniq", TRUE, TRUE)

get_distinct_counts_totals(model, keys, environment_id) ==
    /\ pc = "idle"
    /\ Invoke("get_distinct_counts_totals", model, keys, environment_id,
           DefaultLimit, "uniq", TRUE, FALSE)

get_distinct_counts_union(model, keys, environment_id) ==
    /\ pc = "idle"
    /\ Invoke("get_distinct_counts_union", model, keys, environment_id,
           DefaultLimit, "uniq", FALSE, FALSE)

get_most_frequent(model, keys, limit, environment_id) ==
    /\ pc = "idle"
    /\ Invoke("get_most_frequent", model, keys, environment_id, limit,
           topK(limit), TRUE, FALSE)

get_most_frequent_series(model, keys, limit, environment_id) ==
    /\ pc = "idle"
    /\ Invoke("get_most_frequent_series", model, keys, environment_id, limit,
           topK(limit), TRUE, TRUE)

get_frequency_series(model, items_, environment_id) ==
    /\ pc = "idle"
    /\ Invoke("get_frequency_series", model, items_, environment_id,
           DefaultLimit, "count", TRUE, TRUE)

get_frequency_totals(model, items_, environment_id) ==
    /\ pc = "idle"
    /\ Invoke("get_frequency_totals", model, items_, environment_id,
           DefaultLimit, "count", TRUE, FALSE)

\* requests.post returns: validation, scrubbing, nesting and the adapter's
\* reshaping
BackendResponse ==
    /\ pc = "waiting"
    /\ \E resp \in responses(request[2], call.limit) :
          /\ response' = PyDict(resp)
          /\ outcome' \in complete(call.op,
                                   get_data_response(request[2].groupby, resp))
    /\ pc' = "done"
    /\ UNCHANGED <<call, request>>

\* requests.post or json.loads raises
TransportFailure ==
    /\ pc = "waiting"
    /\ pc' = "done"
    /\ outcome' = Raise("RequestException")
    /\ UNCHANGED <<call, request, response>>

\* the caller takes the outcome; the engine keeps nothing
Finish ==
    /\ pc = "done"
    /\ pc' = "idle"
    /\ call' = PyNone
    /\ request' = PyNone
    /\ response' = PyNone
    /\ outcome' = PyNone

Next ==
    \/ \E model \in Models, keys \in KeyInputs, environment_id \in EnvironmentIds :
          get_range(model, keys, environment_id)
    \/ \E model \in Models, keys \in KeyInputs, environment_id \in EnvironmentIds :
          get_distinct_counts_series(model, keys, environment_id)
    \/ \E model \in Models, keys \in KeyInputs, environment_id \in EnvironmentIds :
          get_distinct_counts_totals(model, keys, environment_id)
    \/ \E model \in Models, keys \in KeyInputs, environment_id \in EnvironmentIds :
          get_distinct_counts_union(model, keys, environment_id)
    \/ \E model \in Models, keys \in KeyInputs, limit \in Limits,
          environment_id \in EnvironmentIds :
          get_most_frequent(model, keys, limit, environment_id)
    \/ \E model \in Models, keys \in KeyInputs, limit \in Limits,
          environment_id \in EnvironmentIds :
          get_most_frequent_series(model, keys, limit, environment_id)
    \/ \E model \in Models, keys \in KeyInputs, environment_id \in EnvironmentIds :
          get_frequency_series(model, keys, environment_id)
    \/ \E model \in Models, keys \in KeyInputs, environment_id \in EnvironmentIds :
          get_frequency_totals(model, keys, environment_id)
    \/ BackendResponse
    \/ TransportFailure
    \/ Finish

Spec == Init /\ [][Next]_vars

----------------------------------------------------------------------------
(* normalize_keys on its own, over every key shape within the bounds *)

NormalizeInputs ==
    {PyList(l) : l \in seqs_upto(ProjectIds, MaxKeys)}
    \cup {PyDict(d) : d \in UNION {[D -> seqs_upto(IssueIds, MaxKeys)] :
                                     D \in SUBSET ProjectIds}}
    \cup {PyNone}

NormalizeKeys(items_) ==
    /\ pc = "idle"
    /\ call' = [op |-> "normalize_keys", items |-> items_]
    /\ outcome' \in normalize_keys(items_)
    /\ pc' = "done"
    /\ UNCHANGED <<request, response>>

NextNormalize ==
    \/ \E items_ \in NormalizeInputs : NormalizeKeys(items_)
    \/ Finish

SpecNormalize == Init /\ [][NextNormalize]_vars

----------------------------------------------------------------------------
(* Properties *)

Called == pc \in {"waiting", "done"}
Sent == Called /\ ~IsNone(request)
Returned == pc = "done" /\ outcome[1] = "return"
Raised(e) == pc = "done" /\ outcome = Raise(e)
Answered == pc = "done" /\ ~IsNone(response)
Supported == call.model \in SupportedModels
Group == model_columns(call.model)[2][1]
Aggregate == model_columns(call.model)[2][2]
Req == request[2]
Resp == response[2]

\* C1: for a model that is not in the registry, every public read operation
\* returns an empty or absent result and never ends in an error.
C1_UnsupportedModelsDegradeSilently ==
    (pc = "done" /\ call.model \in UnsupportedModels)
        => /\ outcome[1] = "return"
           /\ outcome[2] \in {PyNone, PyDict(<<>>), PyList(<<>>)}

\* C4: when no column of the normalized key map contributes a non-empty
\* implied partition set, get_data does not fail: it sends the request with
\* an empty partition scope.
NoPartitionContribution ==
    /\ Supported
    /\ IsList(call.keys) \/ (IsDict(call.keys) /\ DOMAIN call.keys[2] # {})
    /\ call.environment_id \in {PyNone} \cup {PyInt(e[1]) : e \in Environments}
    /\ ~(Group = "project_id" /\ (IsDict(call.keys) \/ call.keys[2] # <<>>))

C4_EmptyScopeIsForwarded ==
    (Called /\ NoPartitionContribution)
        => /\ Sent
           /\ Req.project = PyList(<<>>)
           /\ ~Raised("TypeError")

\* C7: normalize_keys returns (input unchanged, absent) for a flat list; for
\* a two-level mapping it returns the mapping's keys and the duplicate-free
\* union of all value lists, which for a mapping with no entries is the empty
\* list, without an error.
C7_NormalizeKeysContract ==
    (pc = "done" /\ call.op = "normalize_keys") =>
        LET items_ == call.items
            union == UNION {Range(items_[2][x]) : x \in DOMAIN items_[2]}
        IN  IF IsList(items_) THEN outcome = Return(<<items_, PyNone>>)
            ELSE IF IsDict(items_)
            THEN /\ outcome[1] = "return"
                 /\ Range(outcome[2][1][2]) = DOMAIN items_[2]
                 /\ Len(outcome[2][1][2]) = Cardinality(DOMAIN items_[2])
                 /\ Range(outcome[2][2][2]) = union
                 /\ Len(outcome[2][2][2]) = Cardinality(union)
            ELSE TRUE

\* the name the environment resolver gives for the call's environment_id
ResolvedName ==
    (CHOOSE e \in Environments : e[1] = call.environment_id[2])[2]

\* C5: every request of a call with a non-absent environment_id holds the
\* condition ("environment", "=", name), name being what the resolver returns.
C5_EnvironmentConditionSent ==
    (Sent /\ ~IsNone(call.environment_id))
        => \E i \in DOMAIN Req.conditions :
              Req.conditions[i] = <<"environment", "=", ResolvedName>>

C5_Witness ==
    /\ Sent
    /\ call.environment_id = PyInt(7)
    /\ Len(Req.conditions) = 2

\* C6: a meta name outside the request's group-by list plus "aggregate"
\* aborts the operation with an invariant failure and no result; when every
\* name is in that set the validation does not abort.
UnexpectedColumn ==
    \E i \in DOMAIN Resp.meta :
        Resp.meta[i] \notin Range(Req.groupby) \cup {"aggregate"}

C6_UnexpectedColumnAborts ==
    Answered => (UnexpectedColumn <=> outcome = Raise("AssertionError"))

C6_Witness ==
    /\ Answered
    /\ UnexpectedColumn
    /\ Resp.data # <<>>
    /\ outcome = Raise("AssertionError")

\* C8: for a model with an aggregate column, a count request has that column
\* in groupby and no aggregateby field; any other aggregation leaves it out
\* of groupby and sends it as aggregateby.
C8_CountAggregationRewrite ==
    (Sent /\ Aggregate # None) =>
        IF Req.aggregation = "count"
        THEN /\ Aggregate \in Range(Req.groupby)
             /\ "aggregateby" \notin DOMAIN Req
        ELSE /\ Aggregate \notin Range(Req.groupby)
             /\ "aggregateby" \in DOMAIN Req
             /\ Req.aggregateby = Aggregate

C8_Witness ==
    /\ Sent
    /\ call.model = "frequent_issues_by_project"
    /\ Req.aggregation = "count"
    /\ Req.groupby = <<"project_id", "issue">>

\* C10 as stated: every condition of every request has the operator "IN".
C10_EveryOperatorIsIn ==
    Sent => \A i \in DOMAIN Req.conditions : Req.conditions[i][2] = "IN"

\* C10, amended: every condition of a request has the operator "IN" except
\* the environment condition, which a call with a non-absent environment_id
\* appends last with the operator "=".
C10_OnlyEnvironmentIsNotIn ==
    Sent =>
        \A i \in DOMAIN Req.conditions :
            IF ~IsNone(call.environment_id) /\ i = Len(Req.conditions)
            THEN /\ Req.conditions[i][1] = "environment"
                 /\ Req.conditions[i][2] = "="
            ELSE /\ Req.conditions[i][1] # "environment"
                 /\ Req.conditions[i][2] = "IN"

C10_Witness ==
    /\ Sent
    /\ ~IsNone(call.environment_id)
    /\ Len(Req.conditions) = 3

\* the response rows as get_data leaves them: timestamps parsed, a null
\* aggregate read as 0
Timestamp(row) == parse_timestamp(row["time"])
Count(row) == IF IsNone(row["aggregate"]) THEN PyInt(0) ELSE row["aggregate"]
RowsOf(g) == {i \in DOMAIN Resp.data : Resp.data[i][Group] = g}
GroupsWithRows == {Resp.data[i][Group] : i \in DOMAIN Resp.data}
TimesOf(g) == {Timestamp(Resp.data[i]) : i \in RowsOf(g)}
FirstRow(S) == Resp.data[Min(S)]
FirstRowAt(g, t) == FirstRow({i \in RowsOf(g) : Timestamp(Resp.data[i]) = t})

\* the result maps exactly the groups that have rows, each to its
\* (timestamp, count) pairs in ascending order of timestamp
RangeSeries(res) ==
    /\ IsDict(res)
    /\ DOMAIN res[2] = GroupsWithRows
    /\ \A g \in GroupsWithRows :
          LET l == res[2][g][2]
          IN  /\ IsList(res[2][g])
              /\ {l[i][1] : i \in DOMAIN l} = TimesOf(g)
              /\ \A i, j \in DOMAIN l : i < j => l[i][1] < l[j][1]
              /\ \A i \in DOMAIN l :
                    /\ l[i][2][1] = "int"
                    /\ l[i][2] = Count(FirstRowAt(g, l[i][1]))

Ranked(g) == FirstRow(RowsOf(g))["aggregate"][2]

\* C2 as stated: get_most_frequent gives v_1..v_k the scores k..1 and lists
\* the pairs in ascending order of score (least frequent first).
C2_ScoresAscending ==
    (Returned /\ call.op = "get_most_frequent" /\ Supported) =>
        \A g \in GroupsWithRows :
            LET v == Ranked(g)
                k == Len(v)
            IN  outcome[2][2][g] = PyList([i \in 1..k |-> <<v[k + 1 - i], i>>])

\* C2, amended: get_most_frequent gives v_1..v_k the scores k..1 and lists
\* the pairs in descending order of score (most frequent first, the
\* backend's order).
C2_ScoresDescending ==
    (Returned /\ call.op = "get_most_frequent" /\ Supported) =>
        /\ DOMAIN outcome[2][2] = GroupsWithRows
        /\ \A g \in GroupsWithRows :
              LET v == Ranked(g)
                  k == Len(v)
              IN  outcome[2][2][g] = PyList([i \in 1..k |-> <<v[i], k + 1 - i>>])

C2_Witness ==
    /\ Returned
    /\ call.op = "get_most_frequent"
    /\ call.limit = 2
    /\ Len(Resp.data) = 1
    /\ Resp.data[1]["aggregate"] = PyList(<<"b", "a">>)
    /\ outcome[2] = PyDict(Resp.data[1]["project_id"]
                             :> PyList(<< <<"b", 2>>, <<"a", 1>> >>))

\* C9: nest_groups(rows, groups) is the first row's aggregate (absent without
\* rows) when groups is empty; otherwise a mapping whose keys are the distinct
\* values of the first group column, each mapped to nest_groups of exactly
\* the rows with that value over the remaining columns; every leaf lies
\* under as many mappings as there are group columns.
Scrubbed == [i \in DOMAIN Resp.data |-> scrub(Resp.data[i])]

\* the number of mappings on each path from v down to a leaf
RECURSIVE LeafDepths(_)
LeafDepths(v) ==
    IF ~IsDict(v) THEN {0}
    ELSE UNION {{n + 1 : n \in LeafDepths(v[2][k])} : k \in DOMAIN v[2]}

NestedAsSpecified(rows, groups) ==
    LET res == nest_groups(rows, groups)
    IN  IF groups = <<>>
        THEN res = (IF rows # <<>> THEN rows[1]["aggregate"] ELSE PyNone)
        ELSE LET g == Head(groups)
             IN  /\ IsDict(res)
                 /\ DOMAIN res[2] = {rows[i][g] : i \in DOMAIN rows}
                 /\ \A k \in DOMAIN res[2] :
                       res[2][k] = nest_groups(
                           SelectSeq(rows, LAMBDA r : r[g] = k), Tail(groups))
                 /\ rows = <<>> => res = PyDict(<<>>)
                 /\ LeafDepths(res) \subseteq {Len(groups)}
                 /\ rows # <<>> => LeafDepths(res) = {Len(groups)}

C9_NestGroups ==
    Answered =>
        \A n \in 0..Len(Req.groupby) :
            NestedAsSpecified(Scrubbed,
                              SubSeq(Req.groupby, n + 1, Len(Req.groupby)))

C9_Witness ==
    /\ Answered
    /\ Len(Req.groupby) = 3
    /\ Len(Resp.data) = 2
    /\ Resp.data[1]["project_id"] = Resp.data[2]["project_id"]
    /\ Resp.data[1]["time"] # Resp.data[2]["time"]
    /\ Returned

====
